---- MODULE Spec2Model ----
(***************************************************************************)
(* A model of orchestrator/augmentor/extract_env.py: extract_env, which    *)
(* re-embeds the neighbourhood of a centre atom of a periodic structure    *)
(* into a new cubic cell, and find_central_atom, which locates the centre  *)
(* atom of an extracted structure.                                         *)
(*                                                                         *)
(* Units.  Lengths are whole numbers of one length unit (Angstrom).  The   *)
(* code halves the target side (max_cell_len / 2, cell_norms / 2), so the  *)
(* emitted positions are kept doubled: positions2 = 2 * position.  The     *)
(* comparisons of the code are then made on whole numbers:                 *)
(*     |d| <= max_cell_len / 2   is   2 * |d| <= max_cell_len              *)
(*     norm(d) <= rc             is   d.d <= rc * rc                       *)
(*     coord == side_size / 2    is   2 * coord = side_size                *)
(* The source cell is orthorhombic (three lengths); the neighbour list is  *)
(* that of ase.neighborlist.NeighborList with per-atom radii, default      *)
(* skin, self_interaction and bothways.                                    *)
(***************************************************************************)
EXTENDS Integers, Sequences, FiniteSets, TLC

VARIABLES
    cell,             \* original_atoms.cell: the three cell lengths
    positions,        \* original_atoms.positions: sequence of 3-vectors
    symbols,          \* original_atoms.symbols
    arrays,           \* original_atoms.arrays: key -> per-atom values
    info_keys,        \* keys of original_atoms.info other than METADATA_KEY
    has_metadata,     \* METADATA_KEY in original_atoms.info
    metadata_keys,    \* keys of original_atoms.info[METADATA_KEY]
    heap,             \* content of the (mutable) metadata value objects
    rc,               \* argument rc
    atom_inds,        \* argument atom_inds: an int or a list of ints
    new_cell,         \* argument new_cell: [form, v] or [form, m]
    extract_cube,     \* argument extract_cube
    keys_to_transfer, \* argument keys_to_transfer: "None" or a list of keys
    nl_order,         \* the order in which the neighbour list reports pairs
    pc,               \* position of the call
    err,              \* the exception raised, "none" if none
    err_at,           \* which raise statement raised it
    cell_norms,       \* local cell_norms
    max_cell_len,     \* local max_cell_len
    loop_pos,         \* how many entries of atom_inds the loop has consumed
    subcells,         \* local subcells
    result,           \* the returned list, <<>> before the return
    found,            \* the last find_central_atom call: <<k, side, index>>
    mutated_via       \* the structure a caller changed a metadata value of

vars == <<cell, positions, symbols, arrays, info_keys, has_metadata,
          metadata_keys, heap, rc, atom_inds, new_cell, extract_cube,
          keys_to_transfer, nl_order, pc, err, err_at, cell_norms,
          max_cell_len, loop_pos, subcells, result, found, mutated_via>>

source_vars == <<cell, positions, symbols, arrays, info_keys, has_metadata,
                 metadata_keys>>

request_vars == <<rc, atom_inds, new_cell, extract_cube, keys_to_transfer,
                  nl_order>>

----------------------------------------------------------------------------
(* Bounds of the model. *)

\* largest coordinate of a source atom
MaxCoord == 1
\* largest target cell side
MaxSide == 3
\* largest cutoff radius
MaxRc == 2
\* longest list of centre indices
MaxInds == 2

----------------------------------------------------------------------------
(* Arithmetic and sequence helpers. *)

Abs(x) == IF x < 0 THEN -x ELSE x

Max3(v) ==
    LET m12 == IF v[1] >= v[2] THEN v[1] ELSE v[2]
    IN  IF m12 >= v[3] THEN m12 ELSE v[3]

Norm2(d) == d[1] * d[1] + d[2] * d[2] + d[3] * d[3]

\* the largest r with r * r <= n
Isqrt(n) == CHOOSE r \in 0..n : r * r <= n /\ (r + 1) * (r + 1) > n

Range(s) == {s[i] : i \in 1..Len(s)}

FnRange(f) == {f[x] : x \in DOMAIN f}

Reverse(s) == [i \in 1..Len(s) |-> s[Len(s) + 1 - i]]

\* np.where(mask)[0]: the 0-based indices of the true entries of a mask
WhereIdx(mask) ==
    LET idx == [i \in 1..Len(mask) |-> i - 1]
        Keep(i) == mask[i + 1]
    IN  SelectSeq(idx, Keep)

\* s[idx] for a list idx of 0-based indices
Take(s, idx) == [k \in 1..Len(idx) |-> s[idx[k] + 1]]

----------------------------------------------------------------------------
(* Strings.  A key is a sequence of one-character strings. *)

\* orchestrator.utils.data_standard.METADATA_KEY, the reserved key of the
\* nested metadata dictionary
METADATA_KEY == <<"_", "m">>

\* x.rsplit('_', 1)[0]: the key up to its last underscore, the whole key
\* when it holds none
RSplitBase(x) ==
    LET us == {i \in 1..Len(x) : x[i] = "_"}
    IN  IF us = {} THEN x
        ELSE LET last == CHOOSE i \in us : \A j \in us : j <= i
             IN  SubSeq(x, 1, last - 1)

\* Python's  a in b  for two strings: a is a substring of b
IsSubstring(a, b) ==
    \E i \in 1..(Len(b) - Len(a) + 1) : SubSeq(b, i, i + Len(a) - 1) = a

\* Python's  k in d  for a dictionary d with key set ks
IsDictKey(k, ks) == k \in ks

----------------------------------------------------------------------------
(* Validation, extract_env lines 39-67. *)

\* new_cell[np.where(~np.eye(3, dtype=bool))]: the six off-diagonal entries
OffDiagonal(m) ==
    <<m[1][2], m[1][3], m[2][1], m[2][3], m[3][1], m[3][2]>>

\* the truth value Python takes of a numpy boolean array in an if: that of
\* its only element, and a ValueError ("ambiguous") for any other size
TruthValue(a) ==
    IF Len(a) = 1 THEN [ambiguous |-> FALSE, value |-> a[1]]
    ELSE [ambiguous |-> TRUE, value |-> FALSE]

\* ~(new_cell[...] == 0) as the condition of the if of line 43
NonOrthorhombicTest(m) ==
    LET off == OffDiagonal(m)
        is_zero == [i \in 1..Len(off) |-> off[i] = 0]
        inverted == [i \in 1..Len(off) |-> ~is_zero[i]]
    IN  TruthValue(inverted)

\* np.linalg.norm(new_cell, 2, 1): the length of each row
RowNorms(m) == [i \in 1..3 |-> Isqrt(Norm2(m[i]))]

\* lines 39-48: cell_norms, or the label of the raise that ended them
CellNormsOf(nc) ==
    IF nc.form = "vec" THEN [ok |-> TRUE, norms |-> nc.v]
    ELSE LET t == NonOrthorhombicTest(nc.m)
         IN  IF t.ambiguous THEN [ok |-> FALSE, at |-> "truth_value"]
             ELSE IF t.value THEN [ok |-> FALSE, at |-> "non_orthorhombic"]
             ELSE [ok |-> TRUE, norms |-> RowNorms(nc.m)]

\* line 53: ~(cell_norms[0] == cell_norms[1] == cell_norms[2])
NotCubeMutant(n) == ~(n[1] = n[2])
NotCube(n) == ~(n[1] = n[2] /\ n[2] = n[3])

\* lines 56-58: the target is larger than one of the source cell parameters
LargerThanSourceMutant(len, cellpar) == len > cellpar[1] \/ len > cellpar[3]
LargerThanSource(len, cellpar) ==
    len > cellpar[1] \/ len > cellpar[2] \/ len > cellpar[3]

\* line 61
RcExceedsLen(len, r) == len < r

\* line 65
TwoRcExceedsLen(len, r) == r * 2 > len

\* lines 39-67: the raise statement reached, "none" when validation passes
ValidationRaise(nc, cellpar, r) ==
    LET cn == CellNormsOf(nc)
    IN  IF ~cn.ok THEN cn.at
        ELSE IF NotCube(cn.norms) THEN "not_cube"
        ELSE IF LargerThanSource(Max3(cn.norms), cellpar) THEN "larger_than_source"
        ELSE IF RcExceedsLen(Max3(cn.norms), r) THEN "rc_exceeds_len"
        ELSE IF TwoRcExceedsLen(Max3(cn.norms), r) THEN "two_rc_exceeds_len"
        ELSE "none"

\* the exception class of each raise statement
ErrorOf(at) ==
    CASE at \in {"truth_value", "non_orthorhombic", "not_cube"} -> "ValueError"
      [] at \in {"larger_than_source", "rc_exceeds_len", "two_rc_exceeds_len"}
            -> "CellTooSmallError"
      [] at = "metadata_lookup" -> "KeyError"
      [] OTHER -> "none"

----------------------------------------------------------------------------
(* The neighbour list, extract_env lines 72-77 and 82. *)

\* line 49-50: keys_to_transfer, [] when None
KeysOf(k) == IF k.none THEN <<>> ELSE k.list

\* lines 68-69: atom_inds, a one-element list when an int
IndsOf(a) == IF a.is_int THEN <<a.value>> ELSE a.list

\* NeighborList's default skin, 0.3, in tenths of the length unit
Skin10 == 3

\* line 75: the radius 0.5 * max_cell_len of every atom, in tenths
Cutoff10(len) == 5 * len

\* NeighborList reports the pair (a, i, offset) when the distance is less
\* than the sum of the two atoms' radii, each widened by the skin (tenths)
NLReach10Mutant(len) == Cutoff10(len) + 2 * Skin10
NLReach10(len) == (Cutoff10(len) + Skin10) + (Cutoff10(len) + Skin10)

\* lines 88-90: positions[i] + offset @ cell - positions[atom_ind]
Displacement(i, offset, a) ==
    [k \in 1..3 |->
        (positions[i + 1][k] + offset[k] * cell[k]) - positions[a + 1][k]]

\* no image further than this many cells along the axis of length a is
\* within the reach of any atom
ImgMax(a, len) == (NLReach10(len) + 10 * MaxCoord) \div (10 * a)

\* every (atom, offset) up to ImgMax cells away, offsets in lexicographic order
Candidates(len) ==
    LET n == Len(positions)
        i1 == ImgMax(cell[1], len)
        i2 == ImgMax(cell[2], len)
        i3 == ImgMax(cell[3], len)
        w2 == 2 * i2 + 1
        w3 == 2 * i3 + 1
        total == (2 * i1 + 1) * w2 * w3 * n
        At(t) == LET u == t \div n
                 IN  [i |-> t % n,
                      offset |-> <<(u \div (w3 * w2)) - i1,
                                   ((u \div w3) % w2) - i2,
                                   (u % w3) - i3>>]
    IN  [t \in 1..total |-> At(t - 1)]

\* line 82: nl.get_neighbors(atom_ind), with self_interaction and bothways:
\* every image of every atom within reach, the atom itself included, once
GetNeighbors(a, len, order) ==
    LET Within(c) ==
            100 * Norm2(Displacement(c.i, c.offset, a))
                < NLReach10(len) * NLReach10(len)
        nb == SelectSeq(Candidates(len), Within)
    IN  IF order = "fwd" THEN nb ELSE Reverse(nb)

----------------------------------------------------------------------------
(* One pass of the loop, extract_env lines 81-156. *)

\* line 98: all three |components| <= max_cell_len / 2
InCube(d, len) == \A k \in 1..3 : 2 * Abs(d[k]) <= len

\* line 108: norm <= rc
InRcMutant(d, r) == Norm2(d) < r * r
InRc(d, r) == Norm2(d) <= r * r

\* lines 112-115: the sphere's entries of one auxiliary array
SphereArrayMutant(cube_array, neigh_array, ind_in_rc) ==
    Take(neigh_array, ind_in_rc)
SphereArray(cube_array, neigh_array, ind_in_rc) == Take(cube_array, ind_in_rc)

\* lines 121 and 126: the indices of the FixAtoms constraint
IndFixMutant(cube, ind_in_rc, n_out) == [j \in 1..n_out |-> j - 1]
IndFix(cube, ind_in_rc, n_out) ==
    IF cube THEN ind_in_rc ELSE [j \in 1..n_out |-> j - 1]

\* line 129: box_center = cell_norms / 2, doubled
BoxCenter2Mutant(norms) == [k \in 1..3 |-> 2 * norms[k]]
BoxCenter2(norms) == norms

\* line 130: new_pos + box_center, doubled
Shift2(disp, norms) ==
    [j \in 1..Len(disp) |-> [k \in 1..3 |-> 2 * disp[j][k] + BoxCenter2(norms)[k]]]

\* line 142: the base name of every key to transfer
OutputKeysMutant(keys) == keys
OutputKeys(keys) == [j \in 1..Len(keys) |-> RSplitBase(keys[j])]

\* the keys of original_atoms.info
SourceInfoKeys == info_keys \cup (IF has_metadata THEN {METADATA_KEY} ELSE {})

\* lines 143-145: the keys of new_info_dict
NewInfoKeys(keys) ==
    {k \in SourceInfoKeys :
        \E b \in Range(OutputKeys(keys)) : IsSubstring(b, k)}

\* lines 146-148: the keys of new_metadata_dict
NewMetadataKeys(keys) ==
    {b \in Range(OutputKeys(keys)) : IsDictKey(b, metadata_keys)}

\* line 146 looks METADATA_KEY up in original_atoms.info for every base name
MetadataLookupFails(keys) == Len(keys) > 0 /\ ~has_metadata

\* lines 145 and 147-150: the dictionaries of the new structure.  A value is
\* assigned, not copied: the new entry refers to the source's value object.
\* Line 150 replaces whatever line 145 stored under METADATA_KEY by the new
\* structure's own dictionary new_metadata_dict (the fields metadata_dict
\* and metadata of the structure); the source's is "source_metadata_dict".
NewInfo(keys) ==
    [k \in NewInfoKeys(keys) \ {METADATA_KEY} |-> <<"info", k>>]

NewMetadata(keys) == [b \in NewMetadataKeys(keys) |-> <<"metadata", b>>]

\* lines 82-154: the structure extracted for atom_ind
NewAtoms(atom_ind) ==
    LET keys == KeysOf(keys_to_transfer)
        len == max_cell_len
        neigh == GetNeighbors(atom_ind, len, nl_order)
        neigh_disp ==
            [j \in 1..Len(neigh) |->
                Displacement(neigh[j].i, neigh[j].offset, atom_ind)]
        neigh_symbols == [j \in 1..Len(neigh) |-> symbols[neigh[j].i + 1]]
        neigh_arrays ==
            [k \in Range(keys) |->
                [j \in 1..Len(neigh) |-> arrays[k][neigh[j].i + 1]]]
        ind_in_cube ==
            WhereIdx([j \in 1..Len(neigh) |-> InCube(neigh_disp[j], len)])
        cube_disp == Take(neigh_disp, ind_in_cube)
        cube_symbols == Take(neigh_symbols, ind_in_cube)
        cube_arrays == [k \in Range(keys) |-> Take(neigh_arrays[k], ind_in_cube)]
        ind_in_rc ==
            WhereIdx([j \in 1..Len(cube_disp) |-> InRc(cube_disp[j], rc)])
        sphere_disp == Take(cube_disp, ind_in_rc)
        sphere_symbols == Take(cube_symbols, ind_in_rc)
        sphere_arrays ==
            [k \in Range(keys) |->
                SphereArray(cube_arrays[k], neigh_arrays[k], ind_in_rc)]
        new_pos == IF extract_cube THEN cube_disp ELSE sphere_disp
        cube_src == Take(neigh, ind_in_cube)
    IN  [symbols    |-> IF extract_cube THEN cube_symbols ELSE sphere_symbols,
         positions2 |-> Shift2(new_pos, cell_norms),
         cell       |-> new_cell,
         pbc        |-> TRUE,
         arrays     |-> IF extract_cube THEN cube_arrays ELSE sphere_arrays,
         info       |-> NewInfo(keys),
         metadata   |-> NewMetadata(keys),
         metadata_dict |-> "new_metadata_dict",
         fix        |-> IndFix(extract_cube, ind_in_rc, Len(new_pos)),
         \* bookkeeping of the model: the neighbour each output atom came
         \* from (positions are computed from it) and the centre asked for
         from       |-> IF extract_cube THEN cube_src
                        ELSE Take(cube_src, ind_in_rc),
         center     |-> atom_ind]

\* line 156: subcells.append(new_atoms)
AppendSubcellMutant(list, s) == <<s>> \o list
AppendSubcell(list, s) == Append(list, s)

----------------------------------------------------------------------------
(* find_central_atom, lines 161-184. *)

\* lines 177-182: atom_found after the scan of one atom's coordinates
RECURSIVE CoordScan(_, _, _, _)
CoordScan(pos2, side, k, atom_found) ==
    IF k > Len(pos2) THEN atom_found
    ELSE IF pos2[k] = side THEN CoordScan(pos2, side, k + 1, TRUE)
    ELSE FALSE

\* lines 176-184: the index of the first atom found, -1 for Python's None
RECURSIVE AtomScan(_, _, _)
AtomScan(config_positions2, side, i) ==
    IF i >= Len(config_positions2) THEN -1
    ELSE IF CoordScan(config_positions2[i + 1], side, 1, FALSE) THEN i
    ELSE AtomScan(config_positions2, side, i + 1)

find_central_atom(config, side_size) == AtomScan(config.positions2, side_size, 0)

----------------------------------------------------------------------------
(* The calls the model makes. *)

Vec(a, b, c) == [form |-> "vec", v |-> <<a, b, c>>]
Mat(r1, r2, r3) == [form |-> "mat", m |-> <<r1, r2, r3>>]

\* source cells: cubes, and cubes one unit short along one axis
SourceCells ==
    {<<a, a, a>> : a \in 2..MaxSide}
        \cup UNION {{<<a - 1, a, a>>, <<a, a - 1, a>>, <<a, a, a - 1>>} :
                        a \in 3..MaxSide}

Grid == {<<x, y, z>> : x \in 0..MaxCoord, y \in 0..MaxCoord, z \in 0..MaxCoord}

\* one atom at the origin, two with the first at the origin, or three in a
\* right angle
AtomLayouts ==
    {<<<<0, 0, 0>>>>} \cup {<<<<0, 0, 0>>, q>> : q \in Grid}
        \cup {<<<<0, 0, 0>>, <<1, 0, 0>>, <<1, 1, 0>>>>}

\* source cells of the calls that vary the geometry: cubes, and cubes one
\* unit longer along the second axis
GeometryCells ==
    {<<a, a, a>> : a \in 2..MaxSide}
        \cup {<<a, a + 1, a>> : a \in 2..(MaxSide - 1)}

Elements == <<"Ta", "W", "Mo">>

\* target cells as 3-vectors: cubes, and cubes one unit longer along one axis
VecCells ==
    {Vec(l, l, l) : l \in 1..MaxSide}
        \cup UNION {{Vec(l + 1, l, l), Vec(l, l + 1, l), Vec(l, l, l + 1)} :
                        l \in 1..MaxSide}

\* target cells as 3x3 matrices: cubic, orthorhombic, and sheared
MatCells ==
    UNION {{Mat(<<l, 0, 0>>, <<0, l, 0>>, <<0, 0, l>>),
            Mat(<<l, 0, 0>>, <<0, l, 0>>, <<0, 0, l + 1>>),
            Mat(<<l, 1, 0>>, <<0, l, 0>>, <<0, 0, l>>)} : l \in 2..MaxSide}

IntInd(i) == [is_int |-> TRUE, value |-> i, list |-> <<>>]
ListInd(l) == [is_int |-> FALSE, value |-> 0, list |-> l]

\* atom_inds: an int, or a list that counts up, counts down or repeats 0
IndChoices(n) ==
    {IntInd(i) : i \in 0..(n - 1)}
        \cup {ListInd([j \in 1..m |-> (j - 1) % n]) : m \in 1..MaxInds}
        \cup {ListInd(<<n - 1, 0>>), ListInd(<<0, 0>>)}

NoKeys == [none |-> TRUE, list |-> <<>>]
KeyList(l) == [none |-> FALSE, list |-> l]

Key_q_d == <<"q", "_", "d">>
Key_m_d == <<"m", "_", "d">>
Key_e == <<"e">>
ArrayKeyPool == {Key_q_d, Key_m_d, Key_e}
InfoKeyPool == {<<"q", "_", "c">>, <<"x", "_", "e">>, <<"d">>}
MetadataKeyPool == {<<"q">>, <<"q", "_", "v">>, <<"e">>}

KeyCode(k) == IF k = Key_q_d THEN 10 ELSE IF k = Key_m_d THEN 20 ELSE 30

\* every array of the pool is attached to the source; atom j's entry of an
\* array is 1 or 2 more than the array's code
ArraysOf(vals) ==
    [k \in ArrayKeyPool |-> [j \in 1..Len(vals) |-> KeyCode(k) + vals[j]]]

ValueObjects ==
    {<<"info", k>> : k \in info_keys} \cup {<<"metadata", k>> : k \in metadata_keys}

\* calls that vary the geometry, all of them passing validation
GeometryCall ==
    /\ cell \in GeometryCells
    /\ positions \in AtomLayouts
    /\ symbols = [j \in 1..Len(positions) |-> Elements[j]]
    /\ arrays = ArraysOf([j \in 1..Len(positions) |-> j])
    /\ info_keys = {}
    /\ has_metadata = TRUE
    /\ metadata_keys = {}
    /\ rc \in 1..MaxRc
    /\ atom_inds \in IndChoices(Len(positions))
    /\ new_cell \in {Vec(l, l, l) : l \in 2..MaxSide}
    /\ ValidationRaise(new_cell, cell, rc) = "none"
    /\ extract_cube \in BOOLEAN
    /\ keys_to_transfer = KeyList(<<Key_q_d>>)
    /\ nl_order \in {"fwd", "rev"}

\* calls that vary the target cell and the cutoff
ValidationCall ==
    /\ cell \in SourceCells
    /\ positions = <<<<0, 0, 0>>>>
    /\ symbols = <<"Ta">>
    /\ arrays = ArraysOf(<<1>>)
    /\ info_keys = {}
    /\ has_metadata \in BOOLEAN
    /\ metadata_keys = {}
    /\ rc \in 1..(MaxRc + 2)
    /\ atom_inds = IntInd(0)
    /\ new_cell \in VecCells \cup MatCells
    /\ extract_cube \in BOOLEAN
    /\ keys_to_transfer = NoKeys
    /\ nl_order = "fwd"

\* calls that vary the auxiliary arrays and the metadata
MetadataCall ==
    /\ cell = <<2, 2, 2>>
    /\ positions = <<<<0, 0, 0>>>>
    /\ symbols = <<"Ta">>
    /\ arrays = ArraysOf(<<1>>)
    /\ info_keys \in SUBSET InfoKeyPool
    /\ has_metadata \in BOOLEAN
    /\ metadata_keys \in (IF has_metadata THEN SUBSET MetadataKeyPool ELSE {{}})
    /\ rc = 1
    /\ atom_inds \in {IntInd(0), ListInd(<<0, 0>>)}
    /\ new_cell = Vec(2, 2, 2)
    /\ extract_cube = FALSE
    /\ keys_to_transfer \in
          {NoKeys} \cup {KeyList(<<>>)} \cup {KeyList(<<k>>) : k \in ArrayKeyPool}
              \cup {KeyList(<<k1, k2>>) : k1 \in ArrayKeyPool, k2 \in ArrayKeyPool}
    /\ nl_order = "fwd"

Init ==
    /\ GeometryCall \/ ValidationCall \/ MetadataCall
    /\ heap = [o \in ValueObjects |-> 0]
    /\ pc = "start"
    /\ err = "none"
    /\ err_at = "none"
    /\ cell_norms = <<0, 0, 0>>
    /\ max_cell_len = 0
    /\ loop_pos = 0
    /\ subcells = <<>>
    /\ result = <<>>
    /\ found = [k |-> 0, side |-> 0, index |-> -1]
    /\ mutated_via = -1

----------------------------------------------------------------------------
(* The steps of a call. *)

\* lines 39-67, a check fails: the call ends with the exception
ValidateRaise ==
    /\ pc = "start"
    /\ ValidationRaise(new_cell, cell, rc) # "none"
    /\ pc' = "raised"
    /\ err_at' = ValidationRaise(new_cell, cell, rc)
    /\ err' = ErrorOf(err_at')
    /\ UNCHANGED <<source_vars, request_vars, heap, cell_norms, max_cell_len,
                   loop_pos, subcells, result, found, mutated_via>>

\* lines 39-79, every check passes: cell_norms, max_cell_len, the neighbour
\* list and the empty list of subcells
ValidatePass ==
    /\ pc = "start"
    /\ ValidationRaise(new_cell, cell, rc) = "none"
    /\ cell_norms' = CellNormsOf(new_cell).norms
    /\ max_cell_len' = Max3(cell_norms')
    /\ subcells' = <<>>
    /\ loop_pos' = 0
    /\ pc' = "loop"
    /\ UNCHANGED <<source_vars, request_vars, heap, err, err_at, result, found,
                   mutated_via>>

\* lines 81-156, one centre atom, ended by the KeyError of line 146
ExtractRaise ==
    /\ pc = "loop"
    /\ loop_pos < Len(IndsOf(atom_inds))
    /\ MetadataLookupFails(KeysOf(keys_to_transfer))
    /\ pc' = "raised"
    /\ err_at' = "metadata_lookup"
    /\ err' = ErrorOf(err_at')
    /\ UNCHANGED <<source_vars, request_vars, heap, cell_norms, max_cell_len,
                   loop_pos, subcells, result, found, mutated_via>>

\* lines 81-156, one centre atom
ExtractOne ==
    /\ pc = "loop"
    /\ loop_pos < Len(IndsOf(atom_inds))
    /\ ~MetadataLookupFails(KeysOf(keys_to_transfer))
    /\ subcells' =
          AppendSubcell(subcells, NewAtoms(IndsOf(atom_inds)[loop_pos + 1]))
    /\ loop_pos' = loop_pos + 1
    /\ UNCHANGED <<source_vars, request_vars, heap, pc, err, err_at,
                   cell_norms, max_cell_len, result, found, mutated_via>>

\* line 158
Return ==
    /\ pc = "loop"
    /\ loop_pos = Len(IndsOf(atom_inds))
    /\ result' = subcells
    /\ pc' = "done"
    /\ UNCHANGED <<source_vars, request_vars, heap, err, err_at, cell_norms,
                   max_cell_len, loop_pos, subcells, found, mutated_via>>

\* the caller looks for the central atom of one returned structure
FindCentralAtom ==
    /\ pc = "done"
    /\ \E k \in 1..Len(result), side \in {max_cell_len, max_cell_len + 1} :
          found' = [k |-> k, side |-> side,
                    index |-> find_central_atom(result[k], side)]
    /\ pc' = "located"
    /\ UNCHANGED <<source_vars, request_vars, heap, err, err_at, cell_norms,
                   max_cell_len, loop_pos, subcells, result, mutated_via>>

\* the metadata value objects structure t refers to: 0 is the source, k > 0
\* the k-th returned structure
ValueRefs(t) ==
    IF t = 0 THEN ValueObjects
    ELSE FnRange(result[t].info) \cup FnRange(result[t].metadata)

\* the caller changes, in place, a metadata value it reaches through one
\* structure
MutateValue ==
    /\ pc = "done"
    /\ \E t \in 0..Len(result) : \E o \in ValueRefs(t) :
          /\ heap' = [heap EXCEPT ![o] = 1]
          /\ mutated_via' = t
    /\ pc' = "mutated"
    /\ UNCHANGED <<source_vars, request_vars, err, err_at, cell_norms,
                   max_cell_len, loop_pos, subcells, result, found>>

Next ==
    \/ ValidateRaise
    \/ ValidatePass
    \/ ExtractRaise
    \/ ExtractOne
    \/ Return
    \/ FindCentralAtom
    \/ MutateValue

Spec == Init /\ [][Next]_vars

----------------------------------------------------------------------------
(* What the claims speak of. *)

Structs == 1..Len(subcells)
Side == max_cell_len

\* the squares of the three side lengths of a target cell
SidesSquared(nc) ==
    IF nc.form = "vec" THEN [k \in 1..3 |-> nc.v[k] * nc.v[k]]
    ELSE [k \in 1..3 |-> Norm2(nc.m[k])]

SidesAllEqual(nc) ==
    LET q == SidesSquared(nc) IN q[1] = q[2] /\ q[2] = q[3]

IsVecCube(nc) == nc.form = "vec" /\ nc.v[1] = nc.v[2] /\ nc.v[2] = nc.v[3]

\* a 3x3 matrix with zero off-diagonal entries and three equal positive
\* diagonal entries
IsDiagonalCube(nc) ==
    /\ nc.form = "mat"
    /\ \A i \in 1..3 : \A j \in 1..3 : i # j => nc.m[i][j] = 0
    /\ nc.m[1][1] = nc.m[2][2] /\ nc.m[2][2] = nc.m[3][3] /\ nc.m[1][1] > 0

\* twice the displacement of output atom j of structure s from the box centre
Disp2(s, j) == [k \in 1..3 |-> s.positions2[j][k] - cell_norms[k]]

\* the output atoms of s at (side/2, side/2, side/2)
AtCenter(s) ==
    {j \in 1..Len(s.positions2) : s.positions2[j] = <<Side, Side, Side>>}

\* atoms i and j (0-based) of the source occupy the same site of the lattice
SameSite(i, j) ==
    \A k \in 1..3 : (positions[i + 1][k] - positions[j + 1][k]) % cell[k] = 0

SiteUnshared(i) ==
    \A j \in 0..(Len(positions) - 1) : j # i => ~SameSite(i, j)

\* every image (atom, offset) that can lie in the cube of the target cell
\* about an atom: two atoms are at most MaxCoord apart along an axis, so an
\* image more than (side/2 + MaxCoord) / a cells away is outside the cube
CubeSpan(a) == (Side + 2 * MaxCoord) \div (2 * a)
ImagesNearCube ==
    {[i |-> i, offset |-> <<n1, n2, n3>>] :
        i \in 0..(Len(positions) - 1),
        n1 \in (-CubeSpan(cell[1]))..CubeSpan(cell[1]),
        n2 \in (-CubeSpan(cell[2]))..CubeSpan(cell[2]),
        n3 \in (-CubeSpan(cell[3]))..CubeSpan(cell[3])}

----------------------------------------------------------------------------
(* C1 *)

\* C1: a target cell given as a 3x3 matrix with zero off-diagonal entries and
\* three equal positive diagonal entries L is accepted whenever the 3-vector
\* (L, L, L) is: the call raises no error.
C1_DiagonalMatrixAccepted ==
    (/\ IsDiagonalCube(new_cell)
     /\ ValidationRaise(Vec(new_cell.m[1][1], new_cell.m[1][1], new_cell.m[1][1]),
                        cell, rc) = "none"
     /\ ~MetadataLookupFails(KeysOf(keys_to_transfer)))
        => pc # "raised"

----------------------------------------------------------------------------
(* C2 *)

\* C2: a target cell whose three side lengths are not all equal makes the call
\* fail with a ValueError, whatever rc, the indices and the source are, also
\* when the size or cutoff checks would fail too, and nothing is returned.
C2_NonCubeRaisesValueError ==
    (pc # "start" /\ ~SidesAllEqual(new_cell))
        => /\ pc = "raised"
           /\ err = "ValueError"
           /\ subcells = <<>>
           /\ result = <<>>

\* a non-cubic 3-vector that is also larger than the source cell and smaller
\* than 2 * rc has raised the ValueError
C2_Witness ==
    /\ pc = "raised"
    /\ new_cell.form = "vec"
    /\ ~SidesAllEqual(new_cell)
    /\ LargerThanSource(Max3(new_cell.v), cell)
    /\ TwoRcExceedsLen(Max3(new_cell.v), rc)
    /\ err = "ValueError"

----------------------------------------------------------------------------
(* C3 *)

SizeOrCutoffViolated ==
    \/ \E k \in 1..3 : new_cell.v[1] > cell[k]
    \/ 2 * rc > new_cell.v[1]

AtBoundary ==
    /\ \A k \in 1..3 : new_cell.v[1] <= cell[k]
    /\ \E k \in 1..3 : new_cell.v[1] = cell[k]
    /\ 2 * rc = new_cell.v[1]

\* C3: for a cubic 3-vector target of side L > 0 and rc > 0 the call fails
\* with CellTooSmallError exactly when L exceeds one of the three source cell
\* lengths or 2 * rc > L; with L equal to the smallest source length and
\* 2 * rc equal to L no check fails and the call does not end in an error
\* of the validation.
C3_CellTooSmallIff ==
    (pc # "start" /\ IsVecCube(new_cell) /\ new_cell.v[1] > 0 /\ rc > 0)
        => /\ (err = "CellTooSmallError") <=> SizeOrCutoffViolated
           /\ AtBoundary =>
                 /\ err \notin {"CellTooSmallError", "ValueError"}
                 /\ pc = "raised" => err_at = "metadata_lookup"

\* a call at both boundaries has returned its structures
C3_Witness ==
    /\ pc = "done"
    /\ IsVecCube(new_cell)
    /\ AtBoundary
    /\ Len(result) > 0

----------------------------------------------------------------------------
(* C4 *)

CenterProperty(s) ==
    /\ Cardinality(AtCenter(s)) = 1
    /\ \A j \in AtCenter(s) :
          /\ s.symbols[j] = symbols[s.center + 1]
          /\ find_central_atom(s, Side) = j - 1

\* C4 as claimed: every extracted structure holds exactly one atom at
\* (side/2, side/2, side/2), it carries the symbol of the centre atom asked
\* for, and find_central_atom returns its index.
C4_ExactlyOneAtCenter ==
    \A n \in Structs : CenterProperty(subcells[n])

\* C4 as amended: the same, for a centre atom whose site no other atom of the
\* source occupies; and a find_central_atom call with the side of the target
\* cell has returned the index of that atom.
C4_CenterWhenSiteUnshared ==
    /\ \A n \in Structs :
          SiteUnshared(subcells[n].center) => CenterProperty(subcells[n])
    /\ (pc = "located" /\ found.side = Side
            /\ SiteUnshared(result[found.k].center))
          => /\ found.index >= 0
             /\ AtCenter(result[found.k]) = {found.index + 1}

\* find_central_atom has returned the centre atom of a structure of several
\* atoms, and it is not the first atom of the structure
C4_Witness ==
    /\ pc = "located"
    /\ found.side = Side
    /\ found.index > 0
    /\ SiteUnshared(result[found.k].center)
    /\ result[found.k].symbols[found.index + 1]
          = symbols[result[found.k].center + 1]
    /\ \E j \in 1..Len(result[found.k].symbols) :
          result[found.k].symbols[j] # symbols[result[found.k].center + 1]

----------------------------------------------------------------------------
(* C5 *)

WithinRc(s, j) == Norm2(Disp2(s, j)) <= 4 * rc * rc

\* C5: without extract_cube every emitted atom lies within rc of the box
\* centre and the FixAtoms constraint covers every atom; with extract_cube
\* every emitted atom lies in the cube (positions in [0, side] on each axis)
\* and the constraint holds exactly the output indices of the atoms within rc.
C5_SphereAndCubeSubsets ==
    \A n \in Structs :
        LET s == subcells[n]
            atoms == 1..Len(s.positions2)
        IN  IF ~extract_cube
            THEN /\ \A j \in atoms : WithinRc(s, j)
                 /\ Range(s.fix) = {j - 1 : j \in atoms}
            ELSE /\ \A j \in atoms : \A k \in 1..3 :
                        /\ Abs(Disp2(s, j)[k]) <= Side
                        /\ s.positions2[j][k] \in 0..(2 * Side)
                 /\ Range(s.fix) = {j - 1 : j \in {i \in atoms : WithinRc(s, i)}}
                 /\ Len(s.fix) = Cardinality(Range(s.fix))

\* a cube was returned in which the constraint holds more than the centre atom
\* and leaves out atoms beyond rc
C5_Witness ==
    /\ pc = "done"
    /\ extract_cube
    /\ \E n \in 1..Len(result) :
          /\ Len(result[n].fix) > 1
          /\ Len(result[n].fix) < Len(result[n].positions2)

----------------------------------------------------------------------------
(* C6 *)

\* C6: entry j of every emitted auxiliary array is the source array's entry of
\* the source atom whose periodic image gave output atom j its position and
\* its symbol, in both modes.
C6_ArraysAligned ==
    \A n \in Structs :
        LET s == subcells[n]
            atoms == 1..Len(s.positions2)
        IN  /\ Len(s.from) = Len(s.positions2)
            /\ Len(s.symbols) = Len(s.positions2)
            /\ DOMAIN s.arrays = Range(KeysOf(keys_to_transfer))
            /\ \A j \in atoms :
                  LET src == s.from[j].i
                      d == Displacement(src, s.from[j].offset, s.center)
                  IN  /\ s.positions2[j] = [k \in 1..3 |-> 2 * d[k] + cell_norms[k]]
                      /\ s.symbols[j] = symbols[src + 1]
                      /\ \A key \in DOMAIN s.arrays :
                            /\ Len(s.arrays[key]) = Len(s.positions2)
                            /\ s.arrays[key][j] = arrays[key][src + 1]

\* a sphere was returned that holds images of both source atoms, cut from a
\* neighbour list that reported images outside the cube before them
C6_Witness ==
    /\ pc = "done"
    /\ ~extract_cube
    /\ Len(KeysOf(keys_to_transfer)) > 0
    /\ \E n \in 1..Len(result) :
          LET s == result[n]
              nb == GetNeighbors(s.center, Side, nl_order)
          IN  /\ \E j1, j2 \in 1..Len(s.from) : s.from[j1].i # s.from[j2].i
              /\ ~InCube(Displacement(nb[1].i, nb[1].offset, s.center), Side)

----------------------------------------------------------------------------
(* C7 *)

\* C7: a call with the index list [i_1, ..., i_m] returns exactly m
\* structures, the k-th being the environment of atom i_k; an int i is
\* treated as the list [i].
C7_OneStructurePerIndex ==
    pc = "done" =>
        IF atom_inds.is_int
        THEN result = <<NewAtoms(atom_inds.value)>>
        ELSE /\ Len(result) = Len(atom_inds.list)
             /\ \A k \in 1..Len(result) : result[k] = NewAtoms(atom_inds.list[k])

\* a call with a list of two different indices returned
C7_Witness ==
    /\ pc = "done"
    /\ ~atom_inds.is_int
    /\ Len(atom_inds.list) = 2
    /\ atom_inds.list[1] > atom_inds.list[2]
    /\ result[1] # result[2]

----------------------------------------------------------------------------
(* C8 *)

\* C8: a change in place of a metadata value reached through one structure
\* (the source or a returned structure) changes no value of any other.
C8_StructuresIndependent ==
    pc = "mutated" =>
        \A t \in 0..Len(result) :
            t # mutated_via => \A o \in ValueRefs(t) : heap[o] = 0

----------------------------------------------------------------------------
(* C9 *)

BaseNames == {RSplitBase(x) : x \in Range(KeysOf(keys_to_transfer))}

HasTopLevelEntry(s, k) == k \in DOMAIN s.info /\ s.info[k] = <<"info", k>>

HasNestedEntry(s, k) ==
    k \in DOMAIN s.metadata /\ s.metadata[k] = <<"metadata", k>>

NoUnrelatedEntry(s) ==
    \A k \in DOMAIN s.info \cup DOMAIN s.metadata :
        \E b \in BaseNames : IsSubstring(b, k)

\* C9 as claimed: the new metadata holds every top-level entry of the source
\* (the reserved key's aside) whose key contains a requested base name, every
\* entry of the source's nested dictionary whose key contains one, and no
\* entry whose key contains none.
C9_SubstringFilter ==
    \A n \in Structs :
        /\ \A b \in BaseNames :
              /\ \A k \in SourceInfoKeys \ {METADATA_KEY} :
                    IsSubstring(b, k) => HasTopLevelEntry(subcells[n], k)
              /\ \A k \in metadata_keys :
                    IsSubstring(b, k) => HasNestedEntry(subcells[n], k)
        /\ NoUnrelatedEntry(subcells[n])

\* C9 as amended: the new metadata holds every top-level entry of the source,
\* but the one under the reserved key, whose key contains a requested base
\* name; of the nested dictionary it holds the entries whose key equals a
\* requested base name and no other; it holds no entry whose key contains no
\* requested base name; under the reserved key it holds its own dictionary.
C9_FilterByBaseName ==
    \A n \in Structs :
        /\ \A b \in BaseNames :
              /\ \A k \in SourceInfoKeys \ {METADATA_KEY} :
                    IsSubstring(b, k) => HasTopLevelEntry(subcells[n], k)
              /\ \A k \in metadata_keys :
                    k = b => HasNestedEntry(subcells[n], k)
        /\ DOMAIN subcells[n].metadata = BaseNames \cap metadata_keys
        /\ subcells[n].metadata_dict = "new_metadata_dict"
        /\ NoUnrelatedEntry(subcells[n])

\* a structure was returned with a top-level entry and a nested entry copied,
\* while a nested entry whose key only contains the base name was left behind
C9_Witness ==
    /\ pc = "done"
    /\ \E s \in Range(result) :
          /\ DOMAIN s.info # {}
          /\ DOMAIN s.metadata # {}
          /\ \E k \in metadata_keys \ DOMAIN s.metadata :
                \E b \in BaseNames : IsSubstring(b, k)

----------------------------------------------------------------------------
(* C10 *)

\* C10: every periodic image of every source atom (the centre atom's own
\* images included) whose displacement from the centre atom has all three
\* |components| <= side/2 is in the output of a cube exactly once, and every
\* image within rc is in the output of a sphere exactly once; nothing else is.
C10_CandidatesComplete ==
    \A n \in Structs :
        LET s == subcells[n]
            Wanted(c) ==
                LET d == Displacement(c.i, c.offset, s.center)
                IN  IF extract_cube THEN InCube(d, Side)
                    ELSE InCube(d, Side) /\ Norm2(d) <= rc * rc
            wanted == {c \in ImagesNearCube : Wanted(c)}
        IN  /\ Range(s.from) = wanted
            /\ Len(s.from) = Cardinality(wanted)

\* a cube was returned that holds an image at one of its corners
C10_Witness ==
    /\ pc = "done"
    /\ extract_cube
    /\ \E s \in Range(result) : \E j \in 1..Len(s.positions2) :
          \A k \in 1..3 : Abs(Disp2(s, j)[k]) = Side

----------------------------------------------------------------------------
(* C11 *)

\* C11: a request that passes validation with a non-empty keys_to_transfer,
\* on a source whose metadata holds nothing under the reserved key, raises no
\* error, and the structures it returns hold an empty nested dictionary.
C11_NestedMetadataOptional ==
    (/\ ValidationRaise(new_cell, cell, rc) = "none"
     /\ Len(KeysOf(keys_to_transfer)) > 0
     /\ ~has_metadata)
        => /\ pc # "raised"
           /\ err = "none"
           /\ \A n \in Structs : DOMAIN subcells[n].metadata = {}

----------------------------------------------------------------------------
(* C12 *)

\* the atoms of the source are at pairwise distinct sites of its lattice
SourceSitesDistinct ==
    \A i, j \in 0..(Len(positions) - 1) : i # j => ~SameSite(i, j)

\* output atoms j1 and j2 of s differ by a whole number of sides on every axis
SameOutputSite(s, j1, j2) ==
    \A k \in 1..3 : (s.positions2[j1][k] - s.positions2[j2][k]) % (2 * Side) = 0

\* C12: for a source whose atoms are at pairwise distinct sites, no two
\* distinct atoms of an extracted structure differ by a whole number of target
\* sides on every axis, in both modes, also when the target side equals a
\* source cell length.
C12_NoOverlapUnderPeriodicity ==
    SourceSitesDistinct =>
        \A n \in Structs :
            \A j1, j2 \in 1..Len(subcells[n].positions2) :
                j1 # j2 => ~SameOutputSite(subcells[n], j1, j2)

====
